---- MODULE Spec2Model ----
(***************************************************************************)
(* matchObservable (src/lib/match-obs.ts): a promise that resolves when an *)
(* observable produces the expected values, and rejects with a message     *)
(* otherwise.  The model holds the closure state of matchObs (expectedStep *)
(* and subs), the promise, the timer queue of the host, and the history of *)
(* the events the observable delivered to the three handlers.              *)
(***************************************************************************)
EXTENDS Integers, Sequences, FiniteSets, TLC

\* ------------------------------------------------------------------ bounds
MaxLen == 2         \* longest expected values array
MaxEvents == 4      \* most events the observable delivers in one run
MaxTurns == 1       \* most host turns started by something else than a timer

\* ------------------------------------------------------------------ inputs
\* The values of type T the observable may emit and the array may hold.
Val == {1, 2}

\* Error payloads: an Error object, and null (a payload without toString).
ErrVal == {"Error: boom", "null"}

\* The events an observable delivers to its observer.
NextEv(v) == [type |-> "next", value |-> v, err |-> "none"]
ErrorEv(e) == [type |-> "error", value |-> 0, err |-> e]
CompleteEv == [type |-> "complete", value |-> 0, err |-> "none"]

\* All arrays of length at most n over Val.
SeqsUpTo(n) == UNION {[1..k -> Val] : k \in 0..n}

VARIABLES
    values,          \* parameter values: Array<T>
    expectComplete,  \* parameter expectComplete
    expectError,     \* parameter expectError
    matcherKind,     \* which matcher the caller passed: the default or a custom one
    expectedStep,    \* let expectedStep (0-based index, -1 once finalized)
    subs,            \* const subs: "undefined" until obs$.subscribe() returns
    phase,           \* "subscribing" (inside obs$.subscribe), "running", "aborted"
    stack,           \* the finalize() call in progress, if any, and its position
    timers,          \* pending setTimeout callbacks: turn and phase each was scheduled in
    turn,            \* the host's current turn (task) number
    promise,         \* the returned promise: state, reason, settling event
    resolveCalls,    \* number of calls of resolve() made by finalize
    rejectCalls,     \* number of calls of reject() made by finalize
    unsubscribes,    \* the subs.unsubscribe() calls made: when scheduled, when run
    escaped,         \* number of exceptions that escaped a handler or a timer
    matcherCalls,    \* number of calls of matcher
    messagesBuilt,   \* number of failure messages constructed
    delivered        \* history: the events delivered so far, in order

vars == <<values, expectComplete, expectError, matcherKind, expectedStep, subs,
          phase, stack, timers, turn, promise, resolveCalls, rejectCalls,
          unsubscribes, escaped, matcherCalls, messagesBuilt, delivered>>

config == <<values, expectComplete, expectError, matcherKind>>

\* ----------------------------------------------------------- pure functions
\* matcher: the default (a, b) => a === b, or a caller-supplied one (here
\* "at least the expected value"), so that matching is not the same as being
\* equal and the order of the two arguments matters.
matcher(actual, expected) ==
    IF matcherKind = "default" THEN actual = expected
    ELSE actual >= expected

\* valuePrinter: the default v => JSON.stringify(v); a number prints as its digits.
valuePrinter(v) == ToString(v)

\* err.toString(): defined for an Error object, a TypeError for null/undefined.
HasToString(err) == err # "null"

\* finalize's optional message: undefined is the empty sequence of parts.
NoMessage == <<>>

\* 'Too many values on observable: ' + valuePrinter(value)
TooManyMsg(value) == <<"Too many values on observable: ", valuePrinter(value)>>

\* A plausible slip: the message counts positions from one.
MismatchMsg_oneBased(step, value) ==
    <<"Values at index ", ToString(step + 1), " are expected to match. Received:\n",
      valuePrinter(value), "\nExpected:\n", valuePrinter(values[step + 1])>>

\* `Values at index ${expectedStep} are expected to match. Received:\n...`
MismatchMsg(step, value) ==
    <<"Values at index ", ToString(step), " are expected to match. Received:\n",
      valuePrinter(value), "\nExpected:\n", valuePrinter(values[step + 1])>>

\* `Observable errored unexpectedly before emission index ${expectedStep}. Error: ...`
ErroredMsg(step, err) ==
    <<"Observable errored unexpectedly before emission index ", ToString(step),
      ". Error: ", err>>

\* `Observable completed unexpectedly after ${expectedStep} value emissions. ` + ...
CompletedMsg(step) ==
    <<"Observable completed unexpectedly after ", ToString(step), " value emissions. ",
      IF step < Len(values) THEN "Missing values from observable."
      ELSE "Too many values on observable.">>

\* What one run of a handler body does before it returns or calls finalize:
\* whether it calls finalize and with which message, the value it leaves in
\* expectedStep, how often it called matcher, whether it built a message, and
\* whether it threw instead.
Outcome(fin, msg, step, cmp, built, thr) ==
    [finalize |-> fin, message |-> msg, step |-> step, compared |-> cmp,
     built |-> built, throws |-> thr]

Ignored == Outcome(FALSE, NoMessage, expectedStep, 0, 0, FALSE)

\* A plausible slip: the test forgets expectError.
succeedsNow_ignoresError(step) == ~expectComplete /\ step = Len(values)

\* A plausible slip: the test is off by one and never sees the last match.
succeedsNow_offByOne(step) == ~expectComplete /\ ~expectError /\ step - 1 = Len(values)

\* !expectComplete && !expectError && expectedStep === values.length (after the ++)
succeedsNow(step) == ~expectComplete /\ ~expectError /\ step = Len(values)

\* A plausible slip: a surplus value is counted before it is refused.
next_countsSurplus(value) ==
    IF expectedStep = -1 THEN Ignored
    ELSE IF expectedStep >= Len(values)
    THEN Outcome(TRUE, TooManyMsg(value), expectedStep + 1, 0, 1, FALSE)
    ELSE IF matcher(value, values[expectedStep + 1]) = FALSE
    THEN Outcome(TRUE, MismatchMsg(expectedStep, value), expectedStep, 1, 1, FALSE)
    ELSE IF succeedsNow(expectedStep + 1)
    THEN Outcome(TRUE, NoMessage, expectedStep + 1, 1, 0, FALSE)
    ELSE Outcome(FALSE, NoMessage, expectedStep + 1, 1, 0, FALSE)

\* function next(value)
next(value) ==
    IF expectedStep = -1 THEN Ignored
    ELSE IF expectedStep >= Len(values)
    THEN Outcome(TRUE, TooManyMsg(value), expectedStep, 0, 1, FALSE)
    ELSE IF matcher(value, values[expectedStep + 1]) = FALSE
    THEN Outcome(TRUE, MismatchMsg(expectedStep, value), expectedStep, 1, 1, FALSE)
    ELSE IF succeedsNow(expectedStep + 1)
    THEN Outcome(TRUE, NoMessage, expectedStep + 1, 1, 0, FALSE)
    ELSE Outcome(FALSE, NoMessage, expectedStep + 1, 1, 0, FALSE)

\* A plausible slip: an error is accepted only when it is the one expected end.
errorAccepted_onlyError == expectError /\ ~expectComplete /\ expectedStep = Len(values)

\* A plausible slip: the test forgets where the error arrived.
errorAccepted_anyStep == expectError

\* expectError && expectedStep === values.length
errorAccepted == expectError /\ expectedStep = Len(values)

\* A plausible slip: error() without its guard on the finalized state.
error_unguarded(err) ==
    IF errorAccepted
    THEN Outcome(TRUE, NoMessage, expectedStep, 0, 0, FALSE)
    ELSE IF HasToString(err)
    THEN Outcome(TRUE, ErroredMsg(expectedStep, err), expectedStep, 0, 1, FALSE)
    ELSE Outcome(FALSE, NoMessage, expectedStep, 0, 0, TRUE)

\* function error(err)
error(err) ==
    IF expectedStep = -1 THEN Ignored
    ELSE IF errorAccepted
    THEN Outcome(TRUE, NoMessage, expectedStep, 0, 0, FALSE)
    ELSE IF HasToString(err)
    THEN Outcome(TRUE, ErroredMsg(expectedStep, err), expectedStep, 0, 1, FALSE)
    ELSE Outcome(FALSE, NoMessage, expectedStep, 0, 0, TRUE)

\* A plausible slip: the completion test is off by one.
completeAccepted_offByOne == expectedStep + 1 = Len(values)

\* A plausible slip: completion is accepted only when expectComplete asks for it.
completeAccepted_needsFlag == expectComplete /\ expectedStep = Len(values)

\* expectedStep === values.length
completeAccepted == expectedStep = Len(values)

\* A plausible slip: complete() without its guard on the finalized state.
complete_unguarded ==
    IF completeAccepted
    THEN Outcome(TRUE, NoMessage, expectedStep, 0, 0, FALSE)
    ELSE Outcome(TRUE, CompletedMsg(expectedStep), expectedStep, 0, 1, FALSE)

\* function complete()
complete ==
    IF expectedStep = -1 THEN Ignored
    ELSE IF completeAccepted
    THEN Outcome(TRUE, NoMessage, expectedStep, 0, 0, FALSE)
    ELSE Outcome(TRUE, CompletedMsg(expectedStep), expectedStep, 0, 1, FALSE)

\* A plausible slip: finalize without the invalidation of expectedStep.
finalizeSteps_noInvalidate == <<"schedule", "settle">>

\* A plausible slip: finalize without the deferred unsubscribe.
finalizeSteps_noSchedule == <<"invalidate", "settle">>

\* A plausible slip: finalize settles and schedules first, and invalidates last.
finalizeSteps_invalidatesLast == <<"settle", "schedule", "invalidate">>

\* The statements of finalize(message), in order.
finalizeSteps == <<"invalidate", "schedule", "settle">>

\* Promise semantics: the first resolve/reject settles, later ones change nothing.
Settle(p, state, reason, by) ==
    IF p.state = "pending" THEN [state |-> state, reason |-> reason, by |-> by]
    ELSE p

\* ------------------------------------------------------------------- state
Init ==
    /\ values \in SeqsUpTo(MaxLen)
    /\ expectComplete \in BOOLEAN
    /\ expectError \in BOOLEAN
    /\ matcherKind \in {"default", "custom"}
    /\ expectedStep = 0
    /\ subs = "undefined"
    /\ phase = "subscribing"
    /\ stack = <<>>
    /\ timers = <<>>
    /\ turn = 0
    /\ promise = [state |-> "pending", reason |-> NoMessage, by |-> 0]
    /\ resolveCalls = 0
    /\ rejectCalls = 0
    /\ unsubscribes = <<>>
    /\ escaped = 0
    /\ matcherCalls = 0
    /\ messagesBuilt = 0
    /\ delivered = <<>>

\* No handler is running: the host is between two handler invocations.
Idle == stack = <<>>

\* The subscriber that obs$.subscribe() wraps the three handlers in is stopped by
\* the first error or completion it is given (also when the handler threw): it
\* passes no event on after that.
Stopped == \E k \in 1..Len(delivered) : delivered[k].type # "next"

\* The observable can call a handler when none is running and the subscriber is
\* not stopped: handlers run to completion, and nothing finalize() calls
\* (setTimeout, resolve, reject) calls back into the observable.
CanDeliver ==
    /\ Len(delivered) < MaxEvents
    /\ Idle
    /\ ~Stopped

\* An exception leaves a handler.  The observable either lets it propagate to
\* its caller (inside obs$.subscribe this aborts matchObs before subs is assigned,
\* and the Promise constructor rejects with the exception), or reports it
\* elsewhere.
Throw ==
    /\ escaped' = escaped + 1
    /\ \/ /\ phase = "subscribing"
          /\ phase' = "aborted"
          /\ promise' = Settle(promise, "rejected", <<"TypeError">>, Len(delivered) + 1)
       \/ UNCHANGED <<phase, promise>>
    /\ UNCHANGED <<expectedStep, stack, matcherCalls, messagesBuilt>>

\* The observable delivers event ev and the handler body runs to its return or to
\* its call of finalize.
Deliver(ev, o) ==
    /\ CanDeliver
    /\ delivered' = Append(delivered, ev)
    /\ IF o.throws THEN Throw
       ELSE /\ expectedStep' = o.step
            /\ matcherCalls' = matcherCalls + o.compared
            /\ messagesBuilt' = messagesBuilt + o.built
            /\ stack' = IF o.finalize
                        THEN Append(stack, [pos |-> 1, message |-> o.message,
                                            event |-> Len(delivered) + 1])
                        ELSE stack
            /\ UNCHANGED <<escaped, phase, promise>>
    /\ UNCHANGED <<config, subs, timers, turn, resolveCalls, rejectCalls, unsubscribes>>

OnNext(value) == Deliver(NextEv(value), next(value))

OnError(err) == Deliver(ErrorEv(err), error(err))

OnComplete == Deliver(CompleteEv, complete)

\* function finalize(message?): the next statement of the call in progress.
finalize ==
    /\ stack # <<>>
    /\ LET f == stack[Len(stack)]
           rest == SubSeq(stack, 1, Len(stack) - 1)
           stmt == finalizeSteps[f.pos]
       IN /\ stack' = IF f.pos = Len(finalizeSteps) THEN rest
                      ELSE Append(rest, [f EXCEPT !.pos = f.pos + 1])
          /\ expectedStep' = IF stmt = "invalidate" THEN -1 ELSE expectedStep
          /\ timers' = IF stmt = "schedule"
                       THEN Append(timers, [turn |-> turn,
                                            inSubscribe |-> phase = "subscribing"])
                       ELSE timers
          /\ IF stmt = "settle"
             THEN IF f.message # NoMessage
                  THEN /\ promise' = Settle(promise, "rejected", f.message, f.event)
                       /\ rejectCalls' = rejectCalls + 1
                       /\ UNCHANGED resolveCalls
                  ELSE /\ promise' = Settle(promise, "resolved", NoMessage, f.event)
                       /\ resolveCalls' = resolveCalls + 1
                       /\ UNCHANGED rejectCalls
             ELSE UNCHANGED <<promise, resolveCalls, rejectCalls>>
    /\ UNCHANGED <<config, subs, phase, turn, unsubscribes, escaped, matcherCalls,
                   messagesBuilt, delivered>>

\* obs$.subscribe({ next, error, complete }) returns and subs is assigned.
matchObs ==
    /\ phase = "subscribing"
    /\ Idle
    /\ subs' = "subscription"
    /\ phase' = "running"
    /\ UNCHANGED <<config, expectedStep, stack, timers, turn, promise, resolveCalls,
                   rejectCalls, unsubscribes, escaped, matcherCalls, messagesBuilt,
                   delivered>>

\* The host starts a new turn for something other than one of these timers (the
\* observable's own asynchronous source).
NewTurn ==
    /\ phase # "subscribing"
    /\ Idle
    /\ turn < MaxTurns
    /\ turn' = turn + 1
    /\ UNCHANGED <<config, expectedStep, subs, phase, stack, timers, promise,
                   resolveCalls, rejectCalls, unsubscribes, escaped, matcherCalls,
                   messagesBuilt, delivered>>

\* The host runs the oldest setTimeout callback, () => subs.unsubscribe(), as a
\* turn of its own, after the synchronous code that scheduled it has returned.
Timeout ==
    /\ phase # "subscribing"
    /\ Idle
    /\ timers # <<>>
    /\ turn' = turn + 1
    /\ timers' = Tail(timers)
    /\ IF subs = "undefined"
       THEN /\ escaped' = escaped + 1
            /\ UNCHANGED unsubscribes
       ELSE /\ unsubscribes' = Append(unsubscribes,
                                      [scheduled |-> Head(timers).turn,
                                       inSubscribe |-> Head(timers).inSubscribe,
                                       ran |-> turn + 1])
            /\ UNCHANGED escaped
    /\ UNCHANGED <<config, expectedStep, subs, phase, stack, promise, resolveCalls,
                   rejectCalls, matcherCalls, messagesBuilt, delivered>>

Next ==
    \/ \E value \in Val : OnNext(value)
    \/ \E err \in ErrVal : OnError(err)
    \/ OnComplete
    \/ finalize
    \/ matchObs
    \/ NewTurn
    \/ Timeout

Spec == Init /\ [][Next]_vars

\* The scheduling the code relies on: a handler that called finalize runs it to
\* its end, obs$.subscribe() returns unless it threw, and the host runs every
\* setTimeout callback it was given.
FairSpec ==
    /\ Spec
    /\ WF_vars(finalize)
    /\ WF_vars(matchObs)
    /\ WF_vars(Timeout)

\* ------------------------------------------------------------ the history
\* The k-th delivered event is a value that satisfies the matcher at position k.
IsMatchingValue(k) ==
    /\ delivered[k].type = "next"
    /\ matcher(delivered[k].value, values[k])

\* The first n delivered events are values matching the first n expected ones.
MatchedPrefix(n) ==
    /\ n <= Len(delivered)
    /\ n <= Len(values)
    /\ \A k \in 1..n : IsMatchingValue(k)

\* The observable delivered exactly the expected values, in order, to begin with.
EmitsAll == MatchedPrefix(Len(values))

\* ... and the event that followed them is of the given type.
ThenEvent(type) ==
    /\ EmitsAll
    /\ Len(delivered) > Len(values)
    /\ delivered[Len(values) + 1].type = type

\* ------------------------------------------------------------------ claims

\* C1: whatever the configuration and the events delivered (inside subscribe,
\* re-entrantly, or after a verdict), finalize calls resolve or reject at most
\* once in a run.
C1_SettledAtMostOnce == resolveCalls + rejectCalls <= 1

\* A verdict reached inside the subscribe call, with a later event delivered in
\* that same call.
C1_Witness ==
    /\ resolveCalls + rejectCalls = 1
    /\ phase = "subscribing"
    /\ Idle
    /\ Len(delivered) > promise.by

\* C2: with expectComplete = true and expectError = false, when the observable
\* delivers the expected values in order and then completes, the promise is
\* resolved by that completion and reject is never called.
C2_PassesOnExactThenComplete ==
    (/\ Idle
     /\ expectComplete /\ ~expectError
     /\ ThenEvent("complete"))
    => /\ promise.state = "resolved"
       /\ promise.by = Len(values) + 1
       /\ rejectCalls = 0

C2_Witness ==
    /\ Idle
    /\ expectComplete /\ ~expectError
    /\ Len(values) = 2
    /\ ThenEvent("complete")
    /\ promise.state = "resolved"

\* C3: for every index i below the length, when the first i delivered values
\* match and the next one does not satisfy the matcher at i, the promise is
\* rejected by that value with the mismatch message naming index i, the actual
\* value and the expected value; the matcher ran i + 1 times and expectedStep
\* never passes i.
C3_MismatchNamesIndex ==
    \A i \in 0..(Len(values) - 1) :
        (/\ MatchedPrefix(i)
         /\ Len(delivered) > i
         /\ delivered[i + 1].type = "next"
         /\ ~matcher(delivered[i + 1].value, values[i + 1]))
        => /\ expectedStep <= i
           /\ matcherCalls = i + 1
           /\ Idle => /\ promise.state = "rejected"
                      /\ promise.by = i + 1
                      /\ Len(promise.reason) = 6
                      /\ promise.reason[1] = "Values at index "
                      /\ promise.reason[2] = ToString(i)
                      /\ promise.reason[4] = ToString(delivered[i + 1].value)
                      /\ promise.reason[6] = ToString(values[i + 1])
                      /\ resolveCalls = 0

\* A mismatch at index 1, after one matched value.
C3_Witness ==
    /\ Idle
    /\ Len(values) = 2
    /\ MatchedPrefix(1)
    /\ Len(delivered) > 1
    /\ delivered[2].type = "next"
    /\ ~matcher(delivered[2].value, values[2])
    /\ promise.state = "rejected"
    /\ promise.reason[2] = "1"

\* The promise is rejected by the value after the expected ones, with the
\* 'too many values' message that prints that value.
RejectedTooMany ==
    /\ promise.state = "rejected"
    /\ promise.by = Len(values) + 1
    /\ promise.reason = <<"Too many values on observable: ",
                          ToString(delivered[Len(values) + 1].value)>>

\* C4 as claimed: for every flag combination, a value delivered after the
\* expected ones rejects the promise with the 'too many values' message.
C4_TooManyAnyFlags ==
    (Idle /\ ThenEvent("next")) => RejectedTooMany

\* C4 as amended: the surplus value rejects with the 'too many values' message
\* unless both flags are false and the array is not empty; in that case the
\* promise was already resolved by the last expected value and stays resolved.
C4_TooManyUnlessAlreadyPassed ==
    (Idle /\ ThenEvent("next"))
    => IF expectComplete \/ expectError \/ Len(values) = 0
       THEN RejectedTooMany
       ELSE /\ promise.state = "resolved"
            /\ promise.by = Len(values)
            /\ rejectCalls = 0

\* A surplus value after two matched ones, an error being the expected end.
C4_Witness ==
    /\ Idle
    /\ expectError /\ ~expectComplete
    /\ Len(values) = 2
    /\ ThenEvent("next")
    /\ RejectedTooMany

\* C5: with both flags false and a non-empty array, when the handler that
\* matched the last expected value has returned and nothing but those values
\* was delivered, the promise is resolved, by that last value.
C5_PassesOnLastValue ==
    (/\ Idle
     /\ ~expectComplete /\ ~expectError
     /\ Len(values) > 0
     /\ EmitsAll
     /\ Len(delivered) = Len(values))
    => /\ promise.state = "resolved"
       /\ promise.by = Len(values)
       /\ resolveCalls = 1
       /\ rejectCalls = 0

C5_Witness ==
    /\ Idle
    /\ ~expectComplete /\ ~expectError
    /\ Len(values) = 2
    /\ EmitsAll
    /\ Len(delivered) = 2
    /\ promise.state = "resolved"

\* C6: with expectError = true, whatever expectComplete is, when the
\* observable delivers the expected values and then errors, the promise is
\* resolved by that error.
C6_PassesOnExpectedError ==
    (/\ Idle
     /\ expectError
     /\ ThenEvent("error"))
    => /\ promise.state = "resolved"
       /\ promise.by = Len(values) + 1
       /\ rejectCalls = 0

\* Both flags true, and the error carries no description.
C6_Witness ==
    /\ Idle
    /\ expectError /\ expectComplete
    /\ Len(values) = 2
    /\ ThenEvent("error")
    /\ delivered[3].err = "null"
    /\ promise.state = "resolved"

\* C7: with expectError = true and expectComplete = false, when the
\* observable delivers the expected values and then completes, the promise is
\* rejected.
C7_CompletionFailsWhenErrorRequired ==
    (/\ Idle
     /\ expectError /\ ~expectComplete
     /\ ThenEvent("complete"))
    => promise.state = "rejected"

\* C8: with expectComplete = true and expectError = false, when the
\* observable delivers the expected values and then errors, the promise is
\* rejected by that error with the 'errored unexpectedly' message carrying
\* index Len(values), and resolve is never called.
C8_UnexpectedErrorRejects ==
    (/\ Idle
     /\ expectComplete /\ ~expectError
     /\ ThenEvent("error"))
    => /\ promise.state = "rejected"
       /\ promise.by = Len(values) + 1
       /\ promise.reason[1] = "Observable errored unexpectedly before emission index "
       /\ promise.reason[2] = ToString(Len(values))
       /\ resolveCalls = 0

\* C9: an event delivered while expectedStep is -1 changes nothing but the
\* history: expectedStep stays -1, the promise keeps its state and reason, no
\* matcher call, no message, no call of finalize (so no settlement and no
\* timer), no exception.
C9_FinalizedIgnoresEvents ==
    [][(expectedStep = -1 /\ delivered' # delivered)
       => /\ expectedStep' = -1
          /\ UNCHANGED <<promise, resolveCalls, rejectCalls, matcherCalls,
                         messagesBuilt, stack, timers, unsubscribes, escaped,
                         subs, phase, turn>>]_vars

\* Two events were delivered after the one that finalized, one of them in a
\* later turn than the subscribe call.
C9_Witness ==
    /\ Idle
    /\ expectedStep = -1
    /\ promise.by > 0
    /\ Len(delivered) >= promise.by + 2
    /\ turn >= 1

\* C10: with an empty array and both flags false, once subscribe has returned
\* the promise is resolved, whether or not an event was delivered.
C10_EmptyPassesImmediately ==
    (/\ Idle
     /\ phase = "running"
     /\ Len(values) = 0
     /\ ~expectComplete /\ ~expectError)
    => promise.state = "resolved"

\* C11: subs.unsubscribe() is invoked at most once in a run; when it has been
\* invoked, the matcher is finalized, resolve or reject has been called, the
\* subscribe call has returned the handle, and the invocation ran in a later
\* turn than the one whose handler scheduled it.
C11_UnsubscribeOnceAfterVerdict ==
    /\ Len(unsubscribes) <= 1
    /\ \A k \in 1..Len(unsubscribes) :
          /\ unsubscribes[k].ran > unsubscribes[k].scheduled
          /\ expectedStep = -1
          /\ resolveCalls + rejectCalls = 1
          /\ promise.state # "pending"
          /\ subs = "subscription"
          /\ phase = "running"

\* The finalizing event was delivered inside the subscribe call, and the
\* release has run.
C11_Witness ==
    /\ Len(unsubscribes) = 1
    /\ unsubscribes[1].inSubscribe
    /\ unsubscribes[1].scheduled = 0
    /\ unsubscribes[1].ran = 1

\* C12: whenever the matcher is finalized, subs.unsubscribe() is eventually
\* invoked, provided the host runs the scheduled callback.
C12_FinalizedEventuallyUnsubscribed ==
    (expectedStep = -1) ~> (Len(unsubscribes) >= 1)

\* A failure verdict reached inside the subscribe call, and released.
C12_Witness ==
    /\ expectedStep = -1
    /\ promise.state = "rejected"
    /\ rejectCalls = 1
    /\ Len(unsubscribes) = 1
    /\ unsubscribes[1].inSubscribe
    /\ timers = <<>>

\* The k-th delivered event is something else than the k-th expected value
\* matched: a mismatching value, a surplus value, or a terminal event.
NonMatching(k) == IF k <= Len(values) THEN ~IsMatchingValue(k) ELSE TRUE

\* The position of the first such event, 0 when there is none.
FirstNonMatching ==
    IF \E k \in 1..Len(delivered) : NonMatching(k)
    THEN CHOOSE k \in 1..Len(delivered) :
             NonMatching(k) /\ \A j \in 1..(k - 1) : ~NonMatching(j)
    ELSE 0

\* The configuration in which the last expected value itself is the verdict.
PassesOnValues == ~expectComplete /\ ~expectError /\ Len(values) > 0

\* C13: when the first event that fails the match is a value (a mismatch or a
\* surplus value; a terminal event has no successor), the promise is rejected by
\* that event with its message, whatever is delivered after it: reject is
\* called once, resolve never, and exactly one message is ever built.
C13_FirstFaultReported ==
    LET p == FirstNonMatching IN
    (/\ Idle
     /\ p > 0
     /\ delivered[p].type = "next"
     /\ ~(PassesOnValues /\ p = Len(values) + 1))
    => /\ promise.state = "rejected"
       /\ promise.by = p
       /\ promise.reason[1] = (IF p <= Len(values) THEN "Values at index "
                               ELSE "Too many values on observable: ")
       /\ rejectCalls = 1
       /\ resolveCalls = 0
       /\ messagesBuilt = 1

\* A mismatching first value, then a second mismatching value, then an error
\* that is not expected: three events that would each fail the match.
C13_Witness ==
    /\ Idle
    /\ Len(values) = 2
    /\ ~expectError
    /\ Len(delivered) = 3
    /\ delivered[1].type = "next" /\ ~matcher(delivered[1].value, values[1])
    /\ delivered[2].type = "next" /\ ~matcher(delivered[2].value, values[2])
    /\ delivered[3].type = "error"
    /\ promise.state = "rejected"
    /\ promise.by = 1

\* C14: an error event that arrives while the matcher is not finalized is turned
\* into a settlement by its own handler invocation, whatever its payload: when
\* the handler has returned, no exception has escaped, the matcher is finalized
\* and resolve or reject has been called for that event.
C14_ErrorAlwaysSettles ==
    LET p == FirstNonMatching IN
    (/\ Idle
     /\ p > 0
     /\ delivered[p].type = "error"
     /\ ~(PassesOnValues /\ p = Len(values) + 1))
    => /\ escaped = 0
       /\ expectedStep = -1
       /\ resolveCalls + rejectCalls = 1
       /\ promise.state # "pending"
       /\ promise.by = p

\* C15: a terminal event that arrives while 0 <= expectedStep < Len(values)
\* rejects the promise, for every flag combination: a completion with the
\* 'completed unexpectedly after <n> value emissions' message ending in 'Missing
\* values', an error with the 'errored unexpectedly before emission index <n>'
\* message, n being the number of values matched so far.
C15_EarlyTerminalRejects ==
    LET p == FirstNonMatching IN
    (/\ Idle
     /\ p > 0
     /\ p <= Len(values)
     /\ delivered[p].type # "next")
    => /\ promise.state = "rejected"
       /\ promise.by = p
       /\ resolveCalls = 0
       /\ IF delivered[p].type = "complete"
          THEN promise.reason = <<"Observable completed unexpectedly after ",
                                  ToString(p - 1), " value emissions. ",
                                  "Missing values from observable.">>
          ELSE /\ Len(promise.reason) = 4
               /\ promise.reason[1] =
                      "Observable errored unexpectedly before emission index "
               /\ promise.reason[2] = ToString(p - 1)

CompletedTooMany(msg) ==
    /\ Len(msg) = 4
    /\ msg[1] = "Observable completed unexpectedly after "
    /\ msg[4] = "Too many values on observable."

\* C18: expectedStep is always -1 or between 0 and Len(values), and complete()
\* never produces its 'Too many values on observable.' wording, neither as the
\* argument of a finalize call nor as the reason of the promise.
C18_CursorInRange ==
    /\ expectedStep \in {-1} \cup (0..Len(values))
    /\ ~CompletedTooMany(promise.reason)
    /\ \A k \in 1..Len(stack) : ~CompletedTooMany(stack[k].message)

\* A surplus value has arrived with expectedStep at Len(values): its handler is
\* about to finalize and expectedStep has not moved.
C18_Witness ==
    /\ Len(values) = 2
    /\ ThenEvent("next")
    /\ Len(delivered) = 3
    /\ stack # <<>>
    /\ stack[1].pos = 1
    /\ expectedStep = 2

C20_PassIsSound ==
    LET n == Len(values) IN
    /\ (promise.state = "resolved")
       => /\ EmitsAll
          /\ promise.by \in {n, n + 1}
          /\ (promise.by = n) => PassesOnValues
          /\ (promise.by = n + 1)
             => /\ ~PassesOnValues
                /\ delivered[n + 1].type \in {"error", "complete"}
                /\ (delivered[n + 1].type = "error") => expectError
          /\ matcherCalls = n
          /\ messagesBuilt = 0
          /\ rejectCalls = 0
    /\ \A k \in 1..Len(stack) :
          (stack[k].message = NoMessage /\ stack[k].pos = 1)
          => /\ expectedStep = n
             /\ EmitsAll
             /\ stack[k].event \in {n, n + 1}

\* Passed on the last of two values, under the custom matcher, with a first
\* value that matches without being equal to the expected one.
C20_Witness ==
    /\ Idle
    /\ promise.state = "resolved"
    /\ matcherKind = "custom"
    /\ Len(values) = 2
    /\ promise.by = 2
    /\ delivered[1].value # values[1]

====
